---- MODULE Spec2Model ----
(***************************************************************************)
(* A model of the GoogleScholarWebScraper matching engine (search.py) and  *)
(* of its batch driver (scrape.py).                                        *)
(*                                                                         *)
(* Python strings are sequences of one-character strings, so that          *)
(* substring tests, splitting and accent stripping are computed and not    *)
(* assumed.  The accented letters are written as digraphs: "a/" is         *)
(* a-acute, "A/" is A-acute.                                               *)
(***************************************************************************)
EXTENDS Integers, Sequences, FiniteSets, TLC

VARIABLES
    mode,               \* which component the behaviour exercises
    pc,                 \* position of the exercised component
    author,             \* name matching: one CrossRef author entry
    user_full_name,     \* name matching: the target's full name
    matched,            \* name matching: result of spanish_name_match_combined
    item,               \* scoring: one CrossRef record
    full_name,          \* scoring: the target's full name
    institution_name,   \* scoring: the target's institution
    scholarship_year,   \* scoring: the target's scholarship year
    score,              \* scoring: result of compute_similarity_score
    results,            \* search_doi: the records CrossRef returns, in order
    name_query,         \* search_doi: the row's "Nombre y apellidos"
    given_name,         \* search_doi: the given name passed by the caller
    doi_result,         \* search_doi: the value returned
    response,           \* search_google_scholar: what requests.post produced
    gs_query,           \* search_google_scholar: the name searched for
    scholar_link,       \* search_google_scholar: the value returned
    df,                 \* scrape.py: the table, row -> its GS, DOI, DOI_Status
    index,              \* scrape.py: the row the loop is at
    rows_processed,     \* scrape.py: rows that went through the DOI search
    file,               \* scrape.py: the table as last written to the file
    doi_results,        \* scrape.py: what search_doi returned for the last row
    failed              \* some external call of the run has failed

nameVars == <<author, user_full_name, matched>>
scoreVars == <<item, full_name, institution_name, scholarship_year, score>>
doiVars == <<results, name_query, given_name, doi_result>>
gsVars == <<response, gs_query, scholar_link>>
batchVars == <<df, index, rows_processed, file, doi_results, failed>>
vars == <<mode, pc, nameVars, scoreVars, doiVars, gsVars, batchVars>>

(***************************************************************************)
(* Bounds of the model.                                                    *)
(***************************************************************************)
MaxNameLen == 4         \* longest target name, in characters
MaxFieldLen == 2        \* longest author given / family field
MaxAuthors == 2         \* most authors of a scored record
YearSpread == 6         \* created years lie within BaseYear -/+ YearSpread
MaxResults == 3         \* most records CrossRef returns to search_doi
MaxEntries == 3         \* most entries of a Google Scholar result page
NRows == 2              \* rows of the table
MaxRecords == 4         \* most records the bibliographic service returns

(***************************************************************************)
(* Python values.                                                          *)
(***************************************************************************)
\* None where a string is expected: a sequence no string is equal to.
None == <<"#None">>

\* Python truthiness of an optional string.
Truthy(s) == s # None /\ s # <<>>

\* "x or ''" (search.py:53).
OrEmpty(s) == IF Truthy(s) THEN s ELSE <<>>

\* The value of a variable the exercised component does not use.
Idle == "idle"

IdleName == author = Idle /\ user_full_name = Idle /\ matched = FALSE

IdleScore ==
    /\ item = Idle /\ full_name = Idle /\ institution_name = Idle
    /\ scholarship_year = 0 /\ score = 0

\* A function's return value that may be None: is_none, or the list returned.
NoneResult == [is_none |-> TRUE, list |-> <<>>]
ListResult(l) == [is_none |-> FALSE, list |-> l]

IdleDoi ==
    /\ results = <<>> /\ name_query = Idle /\ given_name = Idle
    /\ doi_result = NoneResult

IdleScholar == response = Idle /\ gs_query = Idle /\ scholar_link = None

IdleBatch ==
    /\ df = <<>> /\ index = 0 /\ rows_processed = 0 /\ file = <<>>
    /\ doi_results = <<>> /\ failed = FALSE

(***************************************************************************)
(* str methods and unidecode, character by character.                      *)
(***************************************************************************)
\* str.lower() on one character.
LowerChar(c) ==
    CASE c = "A"  -> "a"
      [] c = "A/" -> "a/"
      [] c = "N"  -> "n"
      [] c = "U"  -> "u"
      [] OTHER    -> c

\* unidecode.unidecode on one character: the accent is dropped, case is kept.
UnidecodeChar(c) ==
    CASE c = "a/" -> "a"
      [] c = "A/" -> "A"
      [] OTHER    -> c

lower(s) == [i \in DOMAIN s |-> LowerChar(s[i])]

unidecode(s) == [i \in DOMAIN s |-> UnidecodeChar(s[i])]

\* s.replace('-', ' ')
replace_hyphen(s) == [i \in DOMAIN s |-> IF s[i] = "-" THEN " " ELSE s[i]]

\* re's \w and \s on the model's alphabet.
IsSpace(c) == c = " "
IsWord(c) == c \notin {" ", "-", ".", ",", "?", "/", ":", "="}

\* re.sub(r"[^\w\s]", "", s)
RECURSIVE strip_punct(_)
strip_punct(s) ==
    IF s = <<>> THEN <<>>
    ELSE IF IsWord(Head(s)) \/ IsSpace(Head(s))
         THEN <<Head(s)>> \o strip_punct(Tail(s))
         ELSE strip_punct(Tail(s))

\* "sub in s" for strings.
Contains(sub, s) ==
    \E i \in 0..(Len(s) - Len(sub)) : SubSeq(s, i + 1, i + Len(sub)) = sub

\* str.split(): the maximal runs of non-space characters, in order.
RECURSIVE split_from(_, _)
split_from(s, cur) ==
    IF s = <<>> THEN (IF cur = <<>> THEN <<>> ELSE <<cur>>)
    ELSE IF IsSpace(Head(s))
         THEN (IF cur = <<>> THEN <<>> ELSE <<cur>>) \o split_from(Tail(s), <<>>)
         ELSE split_from(Tail(s), Append(cur, Head(s)))

split(s) == split_from(s, <<>>)

\* " ".join(fields)
RECURSIVE join_space(_)
join_space(fields) ==
    IF fields = <<>> THEN <<>>
    ELSE IF Len(fields) = 1 THEN Head(fields)
    ELSE Head(fields) \o <<" ">> \o join_space(Tail(fields))

\* str.strip() of leading and trailing spaces.
RECURSIVE lstrip(_)
lstrip(s) == IF s # <<>> /\ IsSpace(Head(s)) THEN lstrip(Tail(s)) ELSE s

RECURSIVE rstrip(_)
rstrip(s) ==
    IF s # <<>> /\ IsSpace(s[Len(s)]) THEN rstrip(SubSeq(s, 1, Len(s) - 1)) ELSE s

strip(s) == rstrip(lstrip(s))

\* set(list)
ToSet(seq) == {seq[i] : i \in DOMAIN seq}

\* The least member of a set of numbers.
First(S) == CHOOSE i \in S : \A j \in S : i <= j

\* All sequences over S of length at most n.
SeqsUpTo(S, n) == UNION {[1..k -> S] : k \in 0..n}

\* All strings over an alphabet of length at most n.
StringsUpTo(alphabet, n) == UNION {[1..k -> alphabet] : k \in 0..n}

(***************************************************************************)
(* Name Normalizer (search.py:12-115).                                     *)
(***************************************************************************)
\* search.py:12-28.  The result is <<first_names, paternal, maternal>>.
parse_spanish_name(name) ==
    LET tokens == split(lower(name))
    IN  IF Len(tokens) < 2 THEN <<tokens, None, None>>
        ELSE IF Len(tokens) = 2 THEN <<<<tokens[1]>>, tokens[2], None>>
        ELSE <<<<tokens[1]>>, tokens[Len(tokens) - 1], tokens[Len(tokens)]>>

\* search.py:63-67: the target's first given name, as parsed (lowercased,
\* not accent-stripped), must occur in the accent-stripped given field.
first_name_check(user_first, given) ==
    user_first # <<>> => Contains(user_first[1], given)

\* search.py:30-80.
spanish_name_match_combined(au, name) ==
    LET parsed == parse_spanish_name(name)
        user_first == parsed[1]
        paternal == parsed[2]
        maternal == parsed[3]
    IN  IF ~Truthy(paternal) THEN FALSE
        ELSE
        LET combined_last ==
                IF Truthy(maternal) THEN paternal \o <<" ">> \o maternal
                ELSE paternal
            combined_last_norm == replace_hyphen(unidecode(lower(combined_last)))
            combined_tokens == split(combined_last_norm)
            given == unidecode(lower(OrEmpty(au.given)))
            family == replace_hyphen(unidecode(lower(OrEmpty(au.family))))
            match_count ==
                Cardinality({i \in DOMAIN combined_tokens :
                                Contains(combined_tokens[i], family)})
        IN  IF ~first_name_check(user_first, given) THEN FALSE
            ELSE IF match_count < 1 THEN FALSE
            ELSE TRUE

\* search.py:82-94.
tokenize_name_fields(fields) ==
    split(strip_punct(replace_hyphen(unidecode(lower(join_space(fields))))))

\* dict.get(key, "") on an author entry: None stays None when the key is
\* present with a null value; the model's authors always carry both keys
\* with string values.
name_tokens_exact_match(au, name) ==
    LET author_tokens == tokenize_name_fields(<<au.given, au.family>>)
        user_tokens == tokenize_name_fields(<<name>>)
    IN  ToSet(author_tokens) = ToSet(user_tokens)

(***************************************************************************)
(* Institution Normalizer and Record Matcher (search.py:6-204).            *)
(***************************************************************************)
\* search.py:6-10.
COMMON_INSTITUTION_WORDS ==
    {<<"u", "n", "i", "v", "e", "r", "s", "i", "d", "a", "d">>,
     <<"u", "n", "i", "v", "e", "r", "s", "i", "t", "y">>,
     <<"c", "o", "l", "l", "e", "g", "e">>,
     <<"i", "n", "s", "t", "i", "t", "u", "t", "e">>,
     <<"i", "n", "s", "t", "i", "t", "u", "t", "o">>,
     <<"i", "n", "s", "t", "i", "t", "u", "t">>,
     <<"f", "a", "c", "u", "l", "t", "a", "d">>,
     <<"e", "s", "c", "u", "e", "l", "a">>,
     <<"p", "o", "l", "i", "t", "e", "c", "n", "i", "c", "a">>,
     <<"a", "u", "t", "o", "n", "o", "m", "a">>,
     <<"s", "u", "p", "e", "r", "i", "o", "r">>,
     <<"c", "o", "u", "n", "c", "i", "l">>}

\* [t for t in tokens if t not in COMMON_INSTITUTION_WORDS]
RECURSIVE drop_common(_)
drop_common(tokens) ==
    IF tokens = <<>> THEN <<>>
    ELSE IF Head(tokens) \in COMMON_INSTITUTION_WORDS THEN drop_common(Tail(tokens))
    ELSE <<Head(tokens)>> \o drop_common(Tail(tokens))

\* search.py:124-135: punctuation is removed before the accents are.
normalize_institution_name(name) ==
    drop_common(split(unidecode(strip_punct(replace_hyphen(lower(name))))))

\* search.py:137-146.
institution_match(institution, aff_str) ==
    LET inst_tokens == normalize_institution_name(institution)
        aff_tokens == normalize_institution_name(aff_str)
    IN  IF inst_tokens = <<>> THEN FALSE
        ELSE \E i \in DOMAIN inst_tokens : inst_tokens[i] \in ToSet(aff_tokens)

\* search.py:148-162.  An author's affiliation is a list of names.
check_affiliation_or_publisher(it, inst) ==
    \/ \E a \in DOMAIN it.author :
          \E k \in DOMAIN it.author[a].affiliation :
              institution_match(inst, it.author[a].affiliation[k])
    \/ institution_match(inst, it.publisher)

\* A record without a created year carries NoYear.
NoYear == -1

\* search.py:164-174.
get_created_year(it) == it.created

\* search.py:176-183, with delta as passed at search.py:200.
Delta == 5

\* A range that leaves its two ends out.
check_created_year_in_range_exclusive(it, year) ==
    LET cyear == it.created
    IN  IF cyear = NoYear THEN FALSE
        ELSE (year - Delta) < cyear /\ cyear < (year + Delta)

check_created_year_in_range(it, year) ==
    LET cyear == get_created_year(it)
    IN  IF cyear = NoYear THEN FALSE
        ELSE (year - Delta) <= cyear /\ cyear <= (year + Delta)

\* search.py:117-122.
any_author_matches_name(it, name) ==
    \E a \in DOMAIN it.author : spanish_name_match_combined(it.author[a], name)

\* The sentinel of search.py:196.
Reject == -999

\* search.py:185-204.
compute_similarity_score(it, name, inst, year) ==
    IF ~any_author_matches_name(it, name) THEN Reject
    ELSE 1 + (IF check_affiliation_or_publisher(it, inst) THEN 1 ELSE 0)
           + (IF check_created_year_in_range(it, year) THEN 1 ELSE 0)

(***************************************************************************)
(* Component "score": one call of compute_similarity_score.                *)
(***************************************************************************)
\* Scholarship year of the modelled targets.
BaseYear == 2000

\* Institution strings: "", "council", "Un", "Council un", "a/n-un", "un.",
\* "an".
S_council == <<"c", "o", "u", "n", "c", "i", "l">>
ScoreInstitutions ==
    {<<>>, S_council, <<"U", "n">>,
     <<"C">> \o Tail(S_council) \o <<" ", "u", "n">>,
     <<"a/", "n", "-", "u", "n">>, <<"u", "n", ".">>, <<"a", "n">>}
Publishers == {<<>>, <<"A/", "N">>, <<"n">>}

\* Authors of the records.  "A N" and "an a-n" match the target "a n"; "n a"
\* matches no target by the combined-surname rule.
ScoreAuthors ==
    {[given |-> <<"A">>, family |-> <<"N">>, affiliation |-> <<>>],
     [given |-> <<"A">>, family |-> <<"N">>, affiliation |-> <<<<"u", "n">>>>],
     [given |-> <<"a", "n">>, family |-> <<"a", "-", "n">>, affiliation |-> <<>>],
     [given |-> <<"a", "n">>, family |-> <<"a", "-", "n">>,
      affiliation |-> <<S_council \o <<" ", "a", "n">>, <<"u", "n", "a">>>>],
     [given |-> <<"n">>, family |-> <<"a">>, affiliation |-> <<>>],
     [given |-> <<"n">>, family |-> <<"a">>, affiliation |-> <<<<"u", "n">>>>]}
ScoreNames == {<<"a", " ", "n">>, <<"a", "n", " ", "n", " ", "a">>, <<"a">>}
CreatedYears == {NoYear} \cup ((BaseYear - YearSpread)..(BaseYear + YearSpread))

ScoreItems ==
    [author : SeqsUpTo(ScoreAuthors, MaxAuthors),
     publisher : Publishers,
     created : CreatedYears]

InitScore ==
    /\ mode = "score"
    /\ pc = "call"
    /\ item \in ScoreItems
    /\ full_name \in ScoreNames
    /\ institution_name \in ScoreInstitutions
    /\ scholarship_year = BaseYear
    /\ score = 0
    /\ IdleName /\ IdleDoi /\ IdleScholar /\ IdleBatch

ComputeScore ==
    /\ mode = "score"
    /\ pc = "call"
    /\ score' = compute_similarity_score(item, full_name, institution_name,
                                         scholarship_year)
    /\ pc' = "done"
    /\ UNCHANGED <<mode, batchVars, nameVars, doiVars, gsVars, item, full_name,
                   institution_name, scholarship_year>>

NextScore == ComputeScore

SpecScore == InitScore /\ [][NextScore]_vars

\* The name, institution and year signals of the scored record, stated
\* without the scoring code: token sets that intersect, a year at distance
\* at most five.
NameSignal ==
    \E a \in DOMAIN item.author :
        spanish_name_match_combined(item.author[a], full_name)

InstitutionSignal ==
    LET want == ToSet(normalize_institution_name(institution_name))
        texts == {item.publisher} \cup
                 UNION {ToSet(item.author[a].affiliation) : a \in DOMAIN item.author}
    IN  \E t \in texts : want \cap ToSet(normalize_institution_name(t)) # {}

YearSignal ==
    /\ item.created # NoYear
    /\ item.created - scholarship_year \in (0 - 5)..5

\* C3: compute_similarity_score returns -999 exactly when no author passes
\* the combined-surname match, and otherwise 1 plus one point for an
\* institution match plus one point for a created year within five years of
\* the scholarship year (bounds included); an empty target institution
\* never earns the institution point.
C3_ScoreIsAdditive ==
    (mode = "score" /\ pc = "done") =>
        /\ score \in {-999, 1, 2, 3}
        /\ (score = -999) <=> ~NameSignal
        /\ NameSignal =>
              score = 1 + (IF InstitutionSignal THEN 1 ELSE 0)
                        + (IF YearSignal THEN 1 ELSE 0)
        /\ (NameSignal /\ institution_name = <<>>) =>
              score = 1 + (IF YearSignal THEN 1 ELSE 0)

\* C3 witness: a record with two authors scores 3 with the created year on
\* the edge of the range.
C3_Witness ==
    /\ mode = "score" /\ pc = "done"
    /\ score = 3
    /\ Len(item.author) = 2
    /\ item.created = scholarship_year + 5

(***************************************************************************)
(* Candidate Ranker, Policy B: search_doi (search.py:206-283).             *)
(***************************************************************************)
\* search.py:219-225: the name the records are matched against.
doi_full_name(query, given) ==
    LET parsed == parse_spanish_name(query)
        last1 == IF Truthy(parsed[2]) THEN parsed[2] ELSE <<>>
        last_name_query ==
            IF Truthy(parsed[3]) THEN last1 \o <<" ">> \o parsed[3] ELSE last1
    IN  strip(given \o <<" ">> \o last_name_query)

\* search.py:249-252: the (score, item) pairs with a positive score, in
\* result order.
RECURSIVE collect_scored(_, _, _, _)
collect_scored(res, name, inst, year) ==
    IF res = <<>> THEN <<>>
    ELSE LET sc == compute_similarity_score(Head(res), name, inst, year)
             rest == collect_scored(Tail(res), name, inst, year)
         IN  IF sc > 0 THEN <<[sc |-> sc, it |-> Head(res)]>> \o rest ELSE rest

\* search.py:254-259: the items with an author whose tokens equal the
\* target's, in result order.
RECURSIVE collect_exact(_, _)
collect_exact(res, name) ==
    IF res = <<>> THEN <<>>
    ELSE LET hit == \E a \in DOMAIN Head(res).author :
                        name_tokens_exact_match(Head(res).author[a], name)
             rest == collect_exact(Tail(res), name)
         IN  IF hit THEN <<Head(res)>> \o rest ELSE rest

\* list.sort(key=score, reverse=True): stable, so equal scores keep their
\* order.  insert_desc puts x behind every element whose score is >= x's.
RECURSIVE insert_desc(_, _)
insert_desc(x, sorted) ==
    IF sorted = <<>> THEN <<x>>
    ELSE IF Head(sorted).sc >= x.sc THEN <<Head(sorted)>> \o insert_desc(x, Tail(sorted))
    ELSE <<x>> \o sorted

RECURSIVE sort_desc_from(_, _)
sort_desc_from(todo, sorted) ==
    IF todo = <<>> THEN sorted
    ELSE sort_desc_from(Tail(todo), insert_desc(Head(todo), sorted))

\* search.py:262.
sort_scored(scored) == sort_desc_from(scored, <<>>)

\* search.py:264.
RECURSIVE filter_best(_)
filter_best(scored) ==
    IF scored = <<>> THEN <<>>
    ELSE IF Head(scored).sc >= 2 THEN <<Head(scored)>> \o filter_best(Tail(scored))
    ELSE filter_best(Tail(scored))

DoiPrefix == <<"h", "t", "t", "p", "s", ":", "/", "/", "d", "o", "i", ".", "o", "r", "g", "/">>

\* search.py:266-272.
return_best(best_scored) ==
    LET doi_val == best_scored[1].it.DOI
    IN  IF Truthy(doi_val)
        THEN ListResult(<<[doi |-> DoiPrefix \o doi_val, score |-> best_scored[1].sc]>>)
        ELSE NoneResult

\* search.py:275-281.
return_fallback(exact_match_items) ==
    LET doi_val == exact_match_items[1].DOI
    IN  IF Truthy(doi_val)
        THEN ListResult(<<[doi |-> DoiPrefix \o doi_val, score |-> 1]>>)
        ELSE NoneResult

\* A search_doi that returns every record scoring >= 2 instead of the first.
search_doi_all_best(res, query, given, year, inst) ==
    LET name == doi_full_name(query, given)
        best_scored == filter_best(sort_scored(collect_scored(res, name, inst, year)))
    IN  IF best_scored # <<>>
        THEN ListResult([i \in DOMAIN best_scored |->
                            [doi |-> DoiPrefix \o best_scored[i].it.DOI,
                             score |-> best_scored[i].sc]])
        ELSE NoneResult

\* search.py:206-283.
search_doi(res, query, given, year, inst) ==
    LET name == doi_full_name(query, given)
        scored_items == sort_scored(collect_scored(res, name, inst, year))
        exact_match_items == collect_exact(res, name)
        best_scored == filter_best(scored_items)
    IN  IF best_scored # <<>> THEN return_best(best_scored)
        ELSE IF exact_match_items # <<>> THEN return_fallback(exact_match_items)
        ELSE NoneResult

(***************************************************************************)
(* Component "doi": one call of search_doi.                                *)
(***************************************************************************)
DoiInstitution == <<"U", "n">>

A_plain == [given |-> <<"A">>, family |-> <<"N">>, affiliation |-> <<>>]
A_un == [given |-> <<"A">>, family |-> <<"N">>, affiliation |-> <<<<"u", "n">>>>]
A_hyphen == [given |-> <<"a", "n">>, family |-> <<"a", "-", "n">>, affiliation |-> <<>>]
A_swapped == [given |-> <<"n">>, family |-> <<"a">>, affiliation |-> <<>>]
A_other == [given |-> <<"n">>, family |-> <<"n">>, affiliation |-> <<>>]

\* The records CrossRef may return.  Against the target "a n" of institution
\* "Un" and year BaseYear they score 3, 3, 2, 2, 1, 1, -999, -999; some have
\* no DOI; some have an author whose tokens equal the target's.
DoiItems ==
    {[author |-> <<A_un>>, publisher |-> <<>>, created |-> BaseYear, DOI |-> <<"1">>],
     [author |-> <<A_un>>, publisher |-> <<>>, created |-> BaseYear, DOI |-> None],
     [author |-> <<A_plain>>, publisher |-> <<>>, created |-> BaseYear, DOI |-> <<"2">>],
     [author |-> <<A_other, A_hyphen>>, publisher |-> <<>>, created |-> BaseYear - 5,
      DOI |-> <<"3">>],
     [author |-> <<A_plain>>, publisher |-> <<>>, created |-> NoYear, DOI |-> <<"4">>],
     [author |-> <<A_plain>>, publisher |-> <<>>, created |-> NoYear, DOI |-> <<>>],
     [author |-> <<A_swapped>>, publisher |-> <<>>, created |-> BaseYear, DOI |-> <<"5">>],
     [author |-> <<A_other>>, publisher |-> <<"u", "n">>, created |-> BaseYear,
      DOI |-> <<"6">>]}

DoiQueries == {<<"A", " ", "N">>}
DoiGivenNames == {<<"A">>, <<"A/">>}

InitDoi ==
    /\ mode = "doi"
    /\ pc = "call"
    /\ results \in SeqsUpTo(DoiItems, MaxResults)
    /\ name_query \in DoiQueries
    /\ given_name \in DoiGivenNames
    /\ doi_result = NoneResult
    /\ IdleName /\ IdleScore /\ IdleScholar /\ IdleBatch

SearchDoi ==
    /\ mode = "doi"
    /\ pc = "call"
    /\ doi_result' = search_doi(results, name_query, given_name, BaseYear,
                                DoiInstitution)
    /\ pc' = "done"
    /\ UNCHANGED <<mode, batchVars, nameVars, scoreVars, gsVars, results, name_query,
                   given_name>>

NextDoi == SearchDoi

SpecDoi == InitDoi /\ [][NextDoi]_vars

\* What the claims about search_doi speak of, stated on the records.
DoiDone == mode = "doi" /\ pc = "done"
TargetName == doi_full_name(name_query, given_name)
ScoreAt(i) ==
    compute_similarity_score(results[i], TargetName, DoiInstitution, BaseYear)
ExactAt(i) ==
    \E a \in DOMAIN results[i].author :
        name_tokens_exact_match(results[i].author[a], TargetName)
HighScored == {i \in DOMAIN results : ScoreAt(i) >= 2}
ExactMatched == {i \in DOMAIN results : ExactAt(i)}
TopScored == {i \in HighScored : \A j \in HighScored : ScoreAt(j) <= ScoreAt(i)}
Pair(i, sc) == ListResult(<<[doi |-> DoiPrefix \o results[i].DOI, score |-> sc]>>)
HasDoi(i) == Truthy(results[i].DOI)

\* C1: when some record scores >= 2, search_doi returns exactly one
\* (DOI, score) pair, that of the first record in result order among those
\* with the highest score.
C1_TopScoreFirstSeen ==
    (DoiDone /\ HighScored # {}) =>
        doi_result = Pair(First(TopScored), ScoreAt(First(TopScored)))

\* C2: when no record scores >= 2, search_doi returns the DOI of the first
\* record having an exact-token-match author, with score 1, and None when
\* there is no such record.
C2_ExactFallback ==
    (DoiDone /\ HighScored = {}) =>
        IF ExactMatched # {} THEN doi_result = Pair(First(ExactMatched), 1)
        ELSE doi_result = NoneResult

\* C7: a record without a DOI is skipped: when the deciding set (the records
\* scoring >= 2, or else the exact-token matches) holds a record with a DOI,
\* search_doi returns the DOI of such a record, not None.
Deciding == IF HighScored # {} THEN HighScored ELSE ExactMatched

C7_MissingDoiSkipped ==
    (DoiDone /\ \E i \in Deciding : HasDoi(i)) =>
        /\ ~doi_result.is_none
        /\ \E i \in Deciding :
              HasDoi(i) /\ doi_result.list[1].doi = DoiPrefix \o results[i].DOI

(***************************************************************************)
(* Profile Resolver: search_google_scholar (search.py:285-338).            *)
(***************************************************************************)
\* search.py:319.
ProfilePhrase == <<"u", "s", "e", "r", " ", "p", "r", "o", "f", "i", "l", "e", "s", " ", "f", "o", "r">>

\* search.py:331 and 333.
ProfilePattern == <<"s", "c", "h", "o", "l", "a", "r", ".", "g", "o", "o", "g", "l", "e", ".", "c", "o", "m", "/", "c", "i", "t", "a", "t", "i", "o", "n", "s", "?">>

is_profile_link(l) == Contains(ProfilePattern, l)

\* search.py:319-320: the entry announces user profiles and names the target.
is_candidate_entry(result, query) ==
    LET name_lower == lower(query)
        first_word == split(name_lower)[1]
        title_lower == lower(result.title)
        snippet_lower == lower(result.snippet)
    IN  /\ Contains(ProfilePhrase, title_lower) \/ Contains(ProfilePhrase, snippet_lower)
        /\ \/ Contains(name_lower, title_lower)
           \/ Contains(name_lower, snippet_lower)
           \/ Contains(first_word, snippet_lower)

\* search.py:321-329: the set of the entry's own, inline and related links.
possible_links(result) ==
    {l \in {result.link} \cup ToSet(result.inlineLinks) \cup ToSet(result.relatedUrls) :
        l # <<>>}

\* search.py:330-332: the members of the set matching the profile pattern.
\* The loop returns the first one in the set's iteration order, which Python
\* does not fix for strings: any of them may be returned.
candidate_profile_links(result) == {l \in possible_links(result) : is_profile_link(l)}

\* search.py:309-334: the values the loop over the results may return.
RECURSIVE scan_results(_, _)
scan_results(res, query) ==
    IF res = <<>> THEN {None}
    ELSE LET result == Head(res)
         IN  IF is_candidate_entry(result, query) /\ candidate_profile_links(result) # {}
             THEN candidate_profile_links(result)
             ELSE IF is_profile_link(result.link) THEN {result.link}
             ELSE scan_results(Tail(res), query)

\* The value of a call that raised: nothing in scrape.py catches it, the
\* script ends where it stands.
Uncaught == <<"#raise">>

\* A resolver without the try/except of search.py:297 and 335.
search_google_scholar_unguarded(query, resp) ==
    IF resp.raised THEN {Uncaught}
    ELSE IF resp.status_code = 200 THEN scan_results(resp.results, query)
    ELSE {None}

\* search.py:297-338.  A response is an exception raised by requests.post
\* (a timeout, a transport error), or a status code with the parsed results.
search_google_scholar(query, resp) ==
    IF resp.raised THEN {None}
    ELSE IF resp.status_code = 200 THEN scan_results(resp.results, query)
    ELSE {None}

(***************************************************************************)
(* Component "scholar": one call of search_google_scholar.                 *)
(***************************************************************************)
T_profiles == <<"U", "s", "e", "r", " ", "p", "r", "o", "f", "i", "l", "e", "s", " ", "f", "o", "r", " ">>
L_profile == <<"h", "t", "t", "p", "s", ":", "/", "/", "s", "c", "h", "o", "l", "a", "r", ".", "g", "o", "o", "g", "l", "e", ".", "c", "o", "m", "/", "c", "i", "t", "a", "t", "i", "o", "n", "s", "?", "u", "=">>
L_other == <<"h", "t", "t", "p", "s", ":", "/", "/", "n", ".", "a", "/">>

Entry(t, sn, l, inl, rel) ==
    [title |-> t, snippet |-> sn, link |-> l, inlineLinks |-> inl, relatedUrls |-> rel]

\* The entries a result page may hold, for the target "A N": candidate
\* entries with a profile link as primary, inline or related link, or with
\* none; entries that are no candidates (no phrase, or the phrase for another
\* name) with and without a profile link.
ScholarEntries ==
    {Entry(T_profiles \o <<"A", " ", "N">>, <<>>, L_profile \o <<"1">>, <<>>, <<>>),
     Entry(T_profiles \o <<"a", " ", "n">>, <<>>, L_other,
           <<L_profile \o <<"2">>, L_profile \o <<"3">>>>, <<>>),
     Entry(<<"n">>, T_profiles \o <<"n", " ", "a">>, <<>>, <<>>, <<L_profile \o <<"4">>>>),
     Entry(T_profiles \o <<"a", " ", "n">>, <<>>, L_other, <<L_other>>, <<>>),
     Entry(<<"a", " ", "n">>, <<>>, L_profile \o <<"5">>, <<>>, <<>>),
     Entry(T_profiles \o <<"n", " ", "n">>, <<>>, L_profile \o <<"6">>, <<>>, <<>>),
     Entry(<<"a", " ", "n">>, <<"n">>, L_other, <<L_profile \o <<"7">>>>, <<>>)}

Raised == [raised |-> TRUE, status_code |-> 0, results |-> <<>>]
Answered(code, res) == [raised |-> FALSE, status_code |-> code, results |-> res]

ScholarResponses ==
    {Raised} \cup {Answered(c, r) : c \in {200, 503}, r \in SeqsUpTo(ScholarEntries, MaxEntries)}

ScholarQueries == {<<"A", " ", "N">>}

InitScholar ==
    /\ mode = "scholar"
    /\ pc = "call"
    /\ response \in ScholarResponses
    /\ gs_query \in ScholarQueries
    /\ scholar_link = None
    /\ IdleName /\ IdleScore /\ IdleDoi /\ IdleBatch

SearchScholar ==
    /\ mode = "scholar"
    /\ pc = "call"
    /\ scholar_link' \in search_google_scholar(gs_query, response)
    /\ pc' = "done"
    /\ UNCHANGED <<mode, batchVars, nameVars, scoreVars, doiVars, response, gs_query>>

NextScholar == SearchScholar

SpecScholar == InitScholar /\ [][NextScholar]_vars

\* What the claim about the resolver speaks of, stated on the result list.
ScholarDone == mode = "scholar" /\ pc = "done"
Answered200 == ~response.raised /\ response.status_code = 200
YieldingCandidates ==
    {i \in DOMAIN response.results :
        /\ is_candidate_entry(response.results[i], gs_query)
        /\ candidate_profile_links(response.results[i]) # {}}
PrimaryProfiles ==
    {i \in DOMAIN response.results : is_profile_link(response.results[i].link)}

\* C6: when some candidate profile entry of the list has a profile-pattern
\* link, the URL returned is a profile-pattern link of a candidate profile
\* entry; the primary links of all results are consulted only when no
\* candidate entry of the whole list yields one; with no matching link
\* anywhere the result is None.
C6_CandidatesBeforeFallback ==
    (ScholarDone /\ Answered200) =>
        IF YieldingCandidates # {}
        THEN \E i \in YieldingCandidates :
                scholar_link \in candidate_profile_links(response.results[i])
        ELSE IF PrimaryProfiles # {}
        THEN scholar_link = response.results[First(PrimaryProfiles)].link
        ELSE scholar_link = None

(***************************************************************************)
(* Candidate Ranker, Policy A, as scrape.py uses it.  The search module    *)
(* scrape.py imports (search_doi with three arguments returning            *)
(* (DOI, status) pairs, search_doi_loose) is not among the sources; these  *)
(* operators follow the specification's sections 4.4, 6 and 7.             *)
(***************************************************************************)
PAREJA == <<"P", "A", "R", "E", "J", "A">>
NOMBRE_INSTITUCION == <<"n", "o", "m", "b", "r", "e", "+", "i", "n", "s", "t", "i", "t", "u", "c", "i", "o", "n">>
REVISA == <<"R", "E", "V", "I", "S", "A">>
LOOSE_SEARCH == <<"l", "o", "o", "s", "e", " ", "s", "e", "a", "r", "c", "h">>

\* Section 4.4 and 6: at most three (DOI, status) pairs reach the caller.
MaxDois == 3

\* The first n elements of a sequence.
Take(seq, n) == SubSeq(seq, 1, IF Len(seq) < n THEN Len(seq) ELSE n)

RECURSIVE with_status(_, _)
with_status(recs, st) ==
    IF recs = <<>> THEN <<>>
    ELSE IF Head(recs).status = st THEN <<Head(recs)>> \o with_status(Tail(recs), st)
    ELSE with_status(Tail(recs), st)

\* Section 4.4, Policy A, and 7(a): a failed query gives zero results;
\* otherwise the name-matched records, the preferred tiers first, cut to
\* three.
search_doi_tiered(resp) ==
    IF resp.raised THEN <<>>
    ELSE Take(with_status(resp.records, PAREJA)
                \o with_status(resp.records, NOMBRE_INSTITUCION)
                \o with_status(resp.records, REVISA), MaxDois)

RECURSIVE positive_overlap(_)
positive_overlap(recs) ==
    IF recs = <<>> THEN <<>>
    ELSE IF Head(recs).overlap > 0
         THEN <<[sc |-> Head(recs).overlap, it |-> Head(recs)]>>
                \o positive_overlap(Tail(recs))
         ELSE positive_overlap(Tail(recs))

\* Section 4.4, loose fallback, and 7(a): the records with a token overlap,
\* the larger overlap first, cut to three; none after a failed query.
search_doi_loose(resp) ==
    IF resp.raised THEN <<>>
    ELSE LET ranked == Take(sort_scored(positive_overlap(resp.records)), MaxDois)
         IN  [i \in DOMAIN ranked |-> [doi |-> ranked[i].it.doi]]

(***************************************************************************)
(* The batch driver (scrape.py:30-113).                                    *)
(***************************************************************************)
\* An empty cell read from the file (pandas' NaN); None is what line 38 and
\* lines 92-93 store.
NaN == <<"#nan">>

\* pd.isna
isna(x) == x \in {None, NaN}

\* str(x), as Series.astype(str) applies it to every cell of the column.
str(x) ==
    IF x = None THEN <<"N", "o", "n", "e">>
    ELSE IF x = NaN THEN <<"n", "a", "n">>
    ELSE x

\* scrape.py:41.
save_interval == 10

\* ", ".join(list)
RECURSIVE join_comma(_)
join_comma(l) ==
    IF l = <<>> THEN <<>>
    ELSE IF Len(l) = 1 THEN Head(l)
    ELSE Head(l) \o <<",", " ">> \o join_comma(Tail(l))

\* [res["doi"] for res in final_results]
dois_of(l) == [i \in DOMAIN l |-> l[i].doi]

\* A tier choice that asks for nombre+institucion before PAREJA.
tier_select_swapped(dr) ==
    LET p_only == with_status(dr, PAREJA)
        ni_only == with_status(dr, NOMBRE_INSTITUCION)
    IN  IF ni_only # <<>> THEN [final_results |-> ni_only, label |-> NOMBRE_INSTITUCION]
        ELSE IF p_only # <<>> THEN [final_results |-> p_only, label |-> PAREJA]
        ELSE [final_results |-> dr, label |-> REVISA]

\* scrape.py:66-81: the records kept and the label written.
tier_select(dr) ==
    LET p_only == with_status(dr, PAREJA)
        ni_only == with_status(dr, NOMBRE_INSTITUCION)
    IN  IF p_only # <<>> THEN [final_results |-> p_only, label |-> PAREJA]
        ELSE IF ni_only # <<>>
        THEN [final_results |-> ni_only, label |-> NOMBRE_INSTITUCION]
        ELSE [final_results |-> dr, label |-> REVISA]

\* scrape.py:76: df["DOI_Status"] = df["DOI_Status"].astype(str), executed
\* on the nombre+institucion branch only: the whole column is converted.
cast_status_column(table, label) ==
    IF label = NOMBRE_INSTITUCION
    THEN [r \in DOMAIN table |-> [table[r] EXCEPT !.DOI_Status = str(@)]]
    ELSE table

\* scrape.py:64-88.
write_tiered(table, r, dr) ==
    LET sel == tier_select(dr)
        cast == cast_status_column(table, sel.label)
    IN  [cast EXCEPT ![r].DOI_Status = sel.label,
                     ![r].DOI = join_comma(dois_of(sel.final_results))]

\* scrape.py:91-99.
write_loose(table, r, loose) ==
    [table EXCEPT ![r].DOI = join_comma(dois_of(loose)),
                  ![r].DOI_Status = LOOSE_SEARCH]

\* scrape.py:46.
row_skipped(table, r) == ~isna(table[r].GS) \/ ~isna(table[r].DOI)

(***************************************************************************)
(* Component "batch": one run of scrape.py.                                *)
(***************************************************************************)
Rows == 1..NRows
BatchQuery == <<"A", " ", "N">>

\* What the two services may answer for a row.
BatchScholarResponses ==
    {Raised, Answered(503, <<>>), Answered(200, <<>>),
     Answered(200, <<Entry(T_profiles \o <<"a", " ", "n">>, <<>>,
                           L_profile \o <<"1">>, <<>>, <<>>)>>),
     Answered(200, <<Entry(<<"n">>, <<>>, L_other, <<>>, <<>>)>>)}

BibRaised == [raised |-> TRUE, records |-> <<>>]
BibAnswered(recs) == [raised |-> FALSE, records |-> recs]

BibRecords ==
    {[doi |-> <<"p">>, status |-> PAREJA],
     [doi |-> <<"i">>, status |-> NOMBRE_INSTITUCION],
     [doi |-> <<"r">>, status |-> REVISA]}
BibResponses == {BibRaised} \cup {BibAnswered(l) : l \in SeqsUpTo(BibRecords, MaxRecords)}

LooseRecords ==
    {[doi |-> <<"x">>, overlap |-> 0], [doi |-> <<"l">>, overlap |-> 1]}
LooseResponses ==
    {BibRaised} \cup {BibAnswered(l) : l \in SeqsUpTo(LooseRecords, MaxRecords)}

scholar_failed(resp) == resp.raised \/ resp.status_code # 200

\* The table as read at scrape.py:32-38.  A DOI_Status column the file
\* lacks is created holding None; an empty cell of the file reads as NaN.
InitialRow(kind, created) ==
    LET missing == IF created THEN None ELSE NaN
    IN  CASE kind = "blank" -> [GS |-> NaN, DOI |-> NaN, DOI_Status |-> missing]
          [] kind = "gs"    -> [GS |-> L_profile \o <<"0">>, DOI |-> NaN,
                                DOI_Status |-> missing]
          [] kind = "doi"   -> [GS |-> NaN, DOI |-> <<"r">>,
                                DOI_Status |-> IF created THEN None ELSE REVISA]

InitBatch ==
    /\ mode = "batch"
    /\ pc = "loop"
    /\ \E kinds \in [Rows -> {"blank", "gs", "doi"}], created \in BOOLEAN :
          df = [r \in Rows |-> InitialRow(kinds[r], created)]
    /\ index = 1
    /\ rows_processed = 0
    /\ file = df
    /\ doi_results = <<>>
    /\ failed = FALSE
    /\ IdleName /\ IdleScore /\ IdleDoi /\ IdleScholar

\* scrape.py:44-47: the row has a profile or a DOI already.
SkipRow ==
    /\ mode = "batch" /\ pc = "loop" /\ index <= NRows
    /\ row_skipped(df, index)
    /\ index' = index + 1
    /\ doi_results' = <<>>
    /\ UNCHANGED <<mode, pc, df, rows_processed, file, failed,
                   nameVars, scoreVars, doiVars, gsVars>>

\* scrape.py:49-59: step 1, the profile search.
SearchProfile ==
    /\ mode = "batch" /\ pc = "loop" /\ index <= NRows
    /\ ~row_skipped(df, index)
    /\ \E resp \in BatchScholarResponses :
         \E link \in search_google_scholar(BatchQuery, resp) :
            /\ failed' = (failed \/ scholar_failed(resp))
            /\ IF link = Uncaught
               THEN pc' = "crashed" /\ UNCHANGED <<df, index>>
               ELSE IF link # None
               THEN /\ df' = [df EXCEPT ![index].GS = link]
                    /\ index' = index + 1
                    /\ pc' = "loop"
               ELSE pc' = "doi" /\ UNCHANGED <<df, index>>
    /\ doi_results' = <<>>
    /\ UNCHANGED <<mode, rows_processed, file, nameVars, scoreVars, doiVars, gsVars>>

\* scrape.py:61-109: step 2, the DOI search, tiered or loose, and the
\* periodic save.
SearchDois ==
    /\ mode = "batch" /\ pc = "doi"
    /\ \E bib \in BibResponses :
         LET dr == search_doi_tiered(bib)
         IN  /\ doi_results' = dr
             /\ IF dr # <<>>
                THEN /\ df' = write_tiered(df, index, dr)
                     /\ failed' = (failed \/ bib.raised)
                ELSE \E lresp \in LooseResponses :
                        /\ df' = write_loose(df, index, search_doi_loose(lresp))
                        /\ failed' = (failed \/ bib.raised \/ lresp.raised)
    /\ rows_processed' = rows_processed + 1
    /\ file' = IF rows_processed' % save_interval = 0 THEN df' ELSE file
    /\ index' = index + 1
    /\ pc' = "loop"
    /\ UNCHANGED <<mode, nameVars, scoreVars, doiVars, gsVars>>

\* scrape.py:111-113.
FinalSave ==
    /\ mode = "batch" /\ pc = "loop" /\ index = NRows + 1
    /\ file' = df
    /\ pc' = "saved"
    /\ UNCHANGED <<mode, df, index, rows_processed, doi_results, failed,
                   nameVars, scoreVars, doiVars, gsVars>>

NextBatch == SkipRow \/ SearchProfile \/ SearchDois \/ FinalSave

SpecBatch == InitBatch /\ [][NextBatch]_vars

\* The loop is the only thread and each of its steps returns: a step that
\* can be taken is taken.
FairBatch == SpecBatch /\ WF_vars(NextBatch)

\* The two rankers together: a run of the driver, or a call of search_doi.
InitCaps == InitBatch \/ InitDoi
NextCaps == NextBatch \/ NextDoi
SpecCaps == InitCaps /\ [][NextCaps]_vars

\* The number of DOIs a DOI cell holds: the joined items, none in an empty
\* or missing cell.
RECURSIVE count_char(_, _)
count_char(cell, c) ==
    IF cell = <<>> THEN 0
    ELSE (IF Head(cell) = c THEN 1 ELSE 0) + count_char(Tail(cell), c)

DoiCount(cell) == IF isna(cell) \/ cell = <<>> THEN 0 ELSE 1 + count_char(cell, ",")

\* The highest tier among the pairs search_doi returned, and its DOIs.
HighestLabel(dr) ==
    IF \E i \in DOMAIN dr : dr[i].status = PAREJA THEN PAREJA
    ELSE IF \E i \in DOMAIN dr : dr[i].status = NOMBRE_INSTITUCION
    THEN NOMBRE_INSTITUCION
    ELSE REVISA

BetweenRows == mode = "batch" /\ pc \in {"loop", "saved"}

\* C4: for a row whose search returned a non-empty list, the status written
\* is the label of the highest tier present (PAREJA, then
\* nombre+institucion, then REVISA) and the DOI cell is the comma-joined
\* DOIs of the records of that tier only.
C4_StatusTiering ==
    (BetweenRows /\ doi_results # <<>>) =>
        LET label == HighestLabel(doi_results)
            row == df[index - 1]
        IN  /\ row.DOI_Status = label
            /\ row.DOI = join_comma(dois_of(with_status(doi_results, label)))
            /\ ((\A i \in DOMAIN doi_results : doi_results[i].status = REVISA)
                    => row.DOI_Status = REVISA)

\* C4 witness: a list mixing nombre+institucion and REVISA records, written
\* as nombre+institucion.
C4_Witness ==
    /\ BetweenRows /\ doi_results # <<>>
    /\ \E i, j \in DOMAIN doi_results :
          /\ doi_results[i].status = NOMBRE_INSTITUCION
          /\ doi_results[j].status = REVISA
    /\ df[index - 1].DOI_Status = NOMBRE_INSTITUCION

C10_RowGranular ==
    [][\A r \in Rows : r # index => df'[r] = df[r]]_vars

(***************************************************************************)
(* Component "name": one call of spanish_name_match_combined.              *)
(***************************************************************************)
NameChars == {"a", "a/", "n", " "}
GivenChars == {"a", "a/", "A/"}
FamilyChars == {"n", "-", "N"}

TargetNames == StringsUpTo(NameChars, MaxNameLen)
Authors ==
    [given : StringsUpTo(GivenChars, MaxFieldLen),
     family : StringsUpTo(FamilyChars, MaxFieldLen)]

InitName ==
    /\ mode = "name"
    /\ pc = "call"
    /\ author \in Authors
    /\ user_full_name \in TargetNames
    /\ matched = FALSE
    /\ IdleScore /\ IdleDoi /\ IdleScholar /\ IdleBatch

MatchName ==
    /\ mode = "name"
    /\ pc = "call"
    /\ matched' = spanish_name_match_combined(author, user_full_name)
    /\ pc' = "done"
    /\ UNCHANGED <<mode, batchVars, author, user_full_name, scoreVars, doiVars, gsVars>>

NextName == MatchName

SpecName == InitName /\ [][NextName]_vars

\* C9: spanish_name_match_combined gives the same result for a target name
\* and for its accent-stripped form, whatever the author.
C9_AccentInsensitive ==
    (mode = "name" /\ pc = "done") =>
        matched = spanish_name_match_combined(author, unidecode(user_full_name))

====
